---- MODULE Spec2Model ----
(***************************************************************************)
(* cookbook/integration_anthropic_joke_example.ipynb as a state machine.   *)
(*                                                                         *)
(* The notebook has three code cells, executed top to bottom by one        *)
(* kernel: the install cell, the import + Traceloop.init() cell, and the   *)
(* cell that defines the decorated joke_workflow and calls it.  The last   *)
(* cell may be executed again in the same kernel.  The package index, the  *)
(* tracing SDK and the Anthropic service are the environment: each of      *)
(* their outcomes is a nondeterministic choice.                            *)
(***************************************************************************)
EXTENDS Naturals, Sequences, FiniteSets

\* How many times the define-and-run cell is executed in one kernel.
MaxRuns == 2

\* Literals of the define-and-run cell.
WorkflowName == "pirate_joke_generator"
max_tokens == 1024
model == "claude-3-opus-20240229"
Prompt == "Tell me a joke about OpenTelemetry"

\* Request with another token limit and another model of the same family.
RequestOtherLimits ==
    [ max_tokens |-> 4096,
      messages   |-> << [role |-> "user", content |-> Prompt] >>,
      model      |-> "claude-3-sonnet-20240229" ]

\* Request with a system prompt and a second message added.
RequestWithSystem ==
    [ max_tokens |-> max_tokens,
      system     |-> "You are a pirate",
      messages   |-> << [role |-> "user", content |-> Prompt],
                        [role |-> "assistant", content |-> "Arr"] >>,
      model      |-> model ]

\* The keyword arguments of anthropic.messages.create(...).
Request ==
    [ max_tokens |-> max_tokens,
      messages   |-> << [role |-> "user", content |-> Prompt] >>,
      model      |-> model ]

\* What the service may answer: a Message whose content is a list of text
\* blocks, or one of the client library's errors.
TextBlock(t) == [type |-> "text", text |-> t]
Contents == { << TextBlock("joke") >>, << TextBlock("setup"), TextBlock("punchline") >> }
StopReasons == {"end_turn", "max_tokens"}
Responses ==
    [ content : Contents, stop_reason : StopReasons,
      role : {"assistant"}, model : {model} ]
Errors == {"APIConnectionError", "AuthenticationError", "RateLimitError", "BadRequestError"}

None == "None"

VARIABLES
    pc,            \* the statement the kernel executes next
    installed,     \* whether %pip install put the two packages in place
    initialized,   \* whether Traceloop.init() has completed
    workflowName,  \* the name the workflow(...) decorator was given
    calls,         \* invocations of joke_workflow so far
    span,          \* the workflow span open around the running invocation
    anthropic,     \* invocations whose Anthropic() client was constructed
    requests,      \* requests handed to messages.create, tagged by invocation
    replies,       \* what came back from the service, tagged by invocation
    response,      \* the local `response` (<<>> while unbound)
    fieldsRead,    \* attributes of `response` the body has read
    stdout,        \* lines written by print, tagged by invocation
    ret,           \* the value returned by the function body (<<>>: none)
    raised,        \* the exception propagating out of the function body
    traces,        \* trace records emitted by the workflow wrapper
    result,        \* the value of the expression joke_workflow() (<<>>: none)
    error          \* the uncaught exception that stopped the cell

vars == << pc, installed, initialized, workflowName, calls, span, anthropic,
           requests, replies, response, fieldsRead, stdout, ret, raised,
           traces, result, error >>

Init ==
    /\ pc = "install"
    /\ installed = FALSE
    /\ initialized = FALSE
    /\ workflowName = None
    /\ calls = 0
    /\ span = << >>
    /\ anthropic = {}
    /\ requests = << >>
    /\ replies = << >>
    /\ response = << >>
    /\ fieldsRead = {}
    /\ stdout = << >>
    /\ ret = << >>
    /\ raised = None
    /\ traces = << >>
    /\ result = << >>
    /\ error = None

----------------------------------------------------------------------------
\* Cell 1: %pip install traceloop-sdk anthropic.  The magic reports a failed
\* installation on the console and the kernel goes on.
Install ==
    /\ pc = "install"
    /\ \E ok \in BOOLEAN : installed' = ok
    /\ pc' = "import"
    /\ UNCHANGED << initialized, workflowName, calls, span, anthropic, requests,
                    replies, response, fieldsRead, stdout, ret, raised, traces,
                    result, error >>

\* Cell 2, the three import statements.
Import ==
    /\ pc = "import"
    /\ IF installed
         THEN pc' = "init" /\ error' = error
         ELSE pc' = "halted" /\ error' = "ModuleNotFoundError"
    /\ UNCHANGED << installed, initialized, workflowName, calls, span, anthropic,
                    requests, replies, response, fieldsRead, stdout, ret, raised,
                    traces, result >>

\* TraceloopInit whose initialisation has not completed when the next cell runs.
TraceloopInitDeferred ==
    /\ pc = "init"
    /\ initialized' = FALSE
    /\ pc' = "define"
    /\ UNCHANGED << installed, workflowName, calls, span, anthropic, requests,
                    replies, response, fieldsRead, stdout, ret, raised, traces,
                    result, error >>

\* Cell 2, Traceloop.init(): returns, or raises whatever the SDK raises.
TraceloopInit ==
    /\ pc = "init"
    /\ \/ initialized' = TRUE /\ pc' = "define" /\ error' = error
       \/ initialized' = FALSE /\ pc' = "halted" /\ error' = "TraceloopError"
    /\ UNCHANGED << installed, workflowName, calls, span, anthropic, requests,
                    replies, response, fieldsRead, stdout, ret, raised, traces,
                    result >>

\* Define with the decorator left to name the workflow after the function.
DefineUnnamed ==
    /\ pc = "define"
    /\ workflowName' = "joke_workflow"
    /\ pc' = "invoke"
    /\ UNCHANGED << installed, initialized, calls, span, anthropic, requests,
                    replies, response, fieldsRead, stdout, ret, raised, traces,
                    result, error >>

\* Cell 3, @workflow(name="pirate_joke_generator") def joke_workflow(): ...
Define ==
    /\ pc = "define"
    /\ workflowName' = WorkflowName
    /\ pc' = "invoke"
    /\ UNCHANGED << installed, initialized, calls, span, anthropic, requests,
                    replies, response, fieldsRead, stdout, ret, raised, traces,
                    result, error >>

\* Cell 3, joke_workflow(): the wrapper opens its span under the name it was
\* given and enters the function body with fresh locals.
Invoke ==
    /\ pc = "invoke"
    /\ calls' = calls + 1
    /\ span' = << [name |-> workflowName, call |-> calls + 1] >>
    /\ response' = << >>
    /\ fieldsRead' = {}
    /\ ret' = << >>
    /\ raised' = None
    /\ pc' = "construct"
    /\ UNCHANGED << installed, initialized, workflowName, anthropic, requests,
                    replies, stdout, traces, result, error >>

\* anthropic = Anthropic(): a client, or the constructor's error, which
\* nothing in the body catches.
Construct ==
    /\ pc = "construct"
    /\ \/ anthropic' = anthropic \cup {calls} /\ pc' = "create" /\ raised' = raised
       \/ anthropic' = anthropic /\ pc' = "exit" /\ raised' = "AnthropicError"
    /\ UNCHANGED << installed, initialized, workflowName, calls, span, requests,
                    replies, response, fieldsRead, stdout, ret, traces, result,
                    error >>

\* anthropic.messages.create(...): the request leaves; the call blocks.
Create ==
    /\ pc = "create"
    /\ requests' = Append(requests, [call |-> calls, body |-> Request])
    /\ pc' = "await"
    /\ UNCHANGED << installed, initialized, workflowName, calls, span, anthropic,
                    replies, response, fieldsRead, stdout, ret, raised, traces,
                    result, error >>

\* The blocked call returns a Message, which is bound to `response`.
CreateReturns ==
    /\ pc = "await"
    /\ \E r \in Responses :
         /\ replies' = Append(replies, [call |-> calls, kind |-> "response",
                                        value |-> << r >>, err |-> None])
         /\ response' = << r >>
    /\ pc' = "print"
    /\ UNCHANGED << installed, initialized, workflowName, calls, span, anthropic,
                    requests, fieldsRead, stdout, ret, raised, traces, result,
                    error >>

\* CreateRaises with the exception caught in the body and dropped.
CreateRaisesSwallowed ==
    /\ pc = "await"
    /\ \E e \in Errors :
         replies' = Append(replies, [call |-> calls, kind |-> "error",
                                     value |-> << >>, err |-> e])
    /\ pc' = "exit"
    /\ UNCHANGED << installed, initialized, workflowName, calls, span, anthropic,
                    requests, response, fieldsRead, stdout, ret, raised, traces,
                    result, error >>

\* CreateRaises with the request sent again after a failure.
CreateRaisesRetried ==
    /\ pc = "await"
    /\ \E e \in Errors :
         replies' = Append(replies, [call |-> calls, kind |-> "error",
                                     value |-> << >>, err |-> e])
    /\ requests' = Append(requests, [call |-> calls, body |-> Request])
    /\ pc' = "await"
    /\ UNCHANGED << installed, initialized, workflowName, calls, span, anthropic,
                    response, fieldsRead, stdout, ret, raised, traces, result,
                    error >>

\* The blocked call raises; the body has no try/except, so the exception
\* leaves the body as it is.
CreateRaises ==
    /\ pc = "await"
    /\ \E e \in Errors :
         /\ replies' = Append(replies, [call |-> calls, kind |-> "error",
                                        value |-> << >>, err |-> e])
         /\ raised' = e
    /\ pc' = "exit"
    /\ UNCHANGED << installed, initialized, workflowName, calls, span, anthropic,
                    requests, response, fieldsRead, stdout, ret, traces, result,
                    error >>

\* PrintResponse with the print statement left out.
PrintResponseOmitted ==
    /\ pc = "print"
    /\ pc' = "return"
    /\ UNCHANGED << installed, initialized, workflowName, calls, span, anthropic,
                    requests, replies, response, fieldsRead, stdout, ret, raised,
                    traces, result, error >>

\* PrintResponse printing only the first block of the content.
PrintResponseFirstBlock ==
    /\ pc = "print"
    /\ fieldsRead' = fieldsRead \cup {"content"}
    /\ stdout' = Append(stdout, [call |-> calls,
                                 value |-> SubSeq(response[1].content, 1, 1)])
    /\ pc' = "return"
    /\ UNCHANGED << installed, initialized, workflowName, calls, span, anthropic,
                    requests, replies, response, ret, raised, traces, result,
                    error >>

\* print(response.content)
PrintResponse ==
    /\ pc = "print"
    /\ fieldsRead' = fieldsRead \cup {"content"}
    /\ stdout' = Append(stdout, [call |-> calls, value |-> response[1].content])
    /\ pc' = "return"
    /\ UNCHANGED << installed, initialized, workflowName, calls, span, anthropic,
                    requests, replies, response, ret, raised, traces, result,
                    error >>

\* Return with the return statement left out: the body returns nothing.
ReturnNothing ==
    /\ pc = "return"
    /\ ret' = << >>
    /\ pc' = "exit"
    /\ UNCHANGED << installed, initialized, workflowName, calls, span, anthropic,
                    requests, replies, response, fieldsRead, stdout, raised,
                    traces, result, error >>

\* return response
Return ==
    /\ pc = "return"
    /\ ret' = response
    /\ pc' = "exit"
    /\ UNCHANGED << installed, initialized, workflowName, calls, span, anthropic,
                    requests, replies, response, fieldsRead, stdout, raised,
                    traces, result, error >>

\* The wrapper closes its span, emits the trace record, and hands the body's
\* return value or exception to the cell.
WorkflowExit ==
    /\ pc = "exit"
    /\ traces' = Append(traces, [name |-> span[1].name, call |-> span[1].call,
                                 status |-> IF raised = None THEN "ok" ELSE "error"])
    /\ span' = << >>
    /\ result' = ret
    /\ error' = raised
    /\ pc' = IF raised = None THEN "done" ELSE "failed"
    /\ UNCHANGED << installed, initialized, workflowName, calls, anthropic,
                    requests, replies, response, fieldsRead, stdout, ret, raised >>

\* The define-and-run cell is executed again in the same kernel.
RerunCell ==
    /\ pc \in {"done", "failed"}
    /\ calls < MaxRuns
    /\ result' = << >>
    /\ error' = None
    /\ pc' = "define"
    /\ UNCHANGED << installed, initialized, workflowName, calls, span, anthropic,
                    requests, replies, response, fieldsRead, stdout, ret, raised,
                    traces >>

\* The statements the kernel executes on its own.
Kernel ==
    \/ Install
    \/ Import
    \/ TraceloopInit
    \/ Define
    \/ Invoke
    \/ Construct
    \/ Create
    \/ PrintResponse
    \/ Return
    \/ WorkflowExit

Next ==
    \/ Kernel
    \/ CreateReturns
    \/ CreateRaises
    \/ RerunCell

Spec == Init /\ [][Next]_vars

\* The kernel runs a cell to its end: it does not stop between statements.
FairSpec == Spec /\ WF_vars(Kernel)

----------------------------------------------------------------------------
\* What the logs hold for invocation k.
RequestsOf(k) == { i \in DOMAIN requests : requests[i].call = k }
RepliesOf(k) == { i \in DOMAIN replies : replies[i].call = k }
PrintsOf(k) == { i \in DOMAIN stdout : stdout[i].call = k }
TracesOf(k) == { i \in DOMAIN traces : traces[i].call = k }

\* Invocation k has executed its messages.create statement.
Reached(k) == k \in anthropic /\ (k < calls \/ pc # "create")

\* The position of a statement in the top-to-bottom order of the notebook.
Rank(p) ==
    CASE p = "install"   -> 0
      [] p = "import"    -> 1
      [] p = "init"      -> 2
      [] p = "define"    -> 3
      [] p = "invoke"    -> 4
      [] p = "construct" -> 5
      [] p = "create"    -> 6
      [] p = "await"     -> 7
      [] p = "print"     -> 8
      [] p = "return"    -> 9
      [] p = "exit"      -> 10
      [] OTHER           -> 11

----------------------------------------------------------------------------
\* C1: when the cells have run in order and messages.create has returned a
\* response, the run goes on to finish without error, having printed that
\* response's content exactly once, in answer to the fixed prompt.
C1_RunPrintsOnce ==
    /\ [](pc = "done" =>
            /\ error = None
            /\ Cardinality(PrintsOf(calls)) = 1
            /\ \A i \in PrintsOf(calls) : \A j \in RepliesOf(calls) :
                 stdout[i].value = replies[j].value[1].content
            /\ \A i \in RequestsOf(calls) :
                 requests[i].body.messages[1].content
                     = "Tell me a joke about OpenTelemetry")
    /\ (pc = "print") ~> (pc = "done")

C1_Witness ==
    /\ pc = "done" /\ calls = 1 /\ error = None
    /\ Len(stdout) = 1 /\ Len(requests) = 1

\* C2: when messages.create raises, the same error leaves joke_workflow and
\* reaches the caller; that invocation prints nothing, binds and returns no
\* response, and has sent exactly one request.
C2_FailurePropagates ==
    \A i \in DOMAIN replies :
        replies[i].kind = "error" =>
            LET k == replies[i].call IN
            /\ PrintsOf(k) = {}
            /\ Cardinality(RequestsOf(k)) = 1
            /\ Cardinality(RepliesOf(k)) = 1
            /\ k = calls =>
                 /\ raised = replies[i].err
                 /\ response = << >>
                 /\ ret = << >>
                 /\ pc \in {"exit", "failed", "define", "invoke"}
                 /\ pc = "failed" => error = replies[i].err /\ result = << >>

C2_Witness ==
    /\ pc = "failed" /\ error = "RateLimitError"
    /\ Len(replies) = 1 /\ replies[1].kind = "error"

\* C3: every request sent carries max_tokens = 1024 and
\* model = "claude-3-opus-20240229", on every invocation.
C3_TokensAndModel ==
    \A i \in DOMAIN requests :
        /\ requests[i].body.max_tokens = 1024
        /\ requests[i].body.model = "claude-3-opus-20240229"

C3_Witness ==
    /\ Len(requests) = 2
    /\ requests[1].call = 1 /\ requests[2].call = 2

\* C4: every request sent has exactly the fields max_tokens, messages and
\* model, and messages is a list of exactly one entry, with role "user" and
\* the fixed prompt as content.
C4_RequestShape ==
    \A i \in DOMAIN requests :
        LET b == requests[i].body IN
        /\ DOMAIN b = {"max_tokens", "messages", "model"}
        /\ Len(b.messages) = 1
        /\ DOMAIN b.messages[1] = {"role", "content"}
        /\ b.messages[1].role = "user"
        /\ b.messages[1].content = "Tell me a joke about OpenTelemetry"

C4_Witness ==
    /\ pc = "await" /\ Len(requests) = 1

\* C5: the decorator is given the name "pirate_joke_generator" unchanged, and
\* every span opened and every trace record emitted for an invocation of
\* joke_workflow carries exactly that name.
C5_WorkflowName ==
    /\ workflowName # None => workflowName = "pirate_joke_generator"
    /\ \A i \in DOMAIN span : span[i].name = "pirate_joke_generator"
    /\ \A i \in DOMAIN traces : traces[i].name = "pirate_joke_generator"
    /\ \A k \in 1..calls :
         (k < calls \/ pc \in {"done", "failed", "define", "invoke"})
             => Cardinality(TracesOf(k)) = 1

C5_Witness ==
    /\ Len(traces) = 2
    /\ traces[1].status = "ok" /\ traces[2].status = "error"

C7_ChainedCalls ==
    pc = "done" =>
        \E i, j \in RequestsOf(calls) :
            /\ i < j
            /\ \E r \in RepliesOf(calls) : replies[r].kind = "response"

\* C8: an invocation issues at most one request: exactly one once it has
\* executed messages.create with a constructed client, none otherwise; so the
\* number of requests is the number of invocations that reached the call,
\* whether the request succeeded or failed.
C8_OneRequestPerCall ==
    /\ \A i \in DOMAIN requests : requests[i].call \in 1..calls
    /\ \A k \in 1..calls :
         Cardinality(RequestsOf(k)) = IF Reached(k) THEN 1 ELSE 0
    /\ Len(requests) = Cardinality({ k \in 1..calls : Reached(k) })

C8_Witness ==
    /\ calls = 2 /\ pc = "failed" /\ Len(requests) = 2
    /\ replies[1].kind = "error" /\ replies[2].kind = "error"

\* C9: the steps come in a fixed order: joke_workflow is defined and invoked
\* only after Traceloop.init() has completed; a request is sent only by a
\* constructed client; a line is printed only after the response has arrived;
\* the body returns only after the print; and no statement is followed by an
\* earlier one, except that the cell is run again from its top.
C9_FixedOrder ==
    [][ /\ pc' = "invoke" => initialized
        /\ calls' # calls => initialized /\ workflowName # None
        /\ requests' # requests => calls \in anthropic
        /\ stdout' # stdout =>
             /\ response # << >>
             /\ \E j \in RepliesOf(calls) : replies[j].kind = "response"
        /\ ret' # ret /\ ret' # << >> => PrintsOf(calls) # {}
        /\ result' # result /\ result' # << >> => ret # << >>
        /\ \/ Rank(pc') >= Rank(pc)
           \/ pc \in {"done", "failed"} /\ pc' = "define"
      ]_vars

C9_Witness ==
    /\ pc = "done" /\ calls = 2 /\ Len(stdout) = 2

\* C10: each printed value is the content field of the response returned by
\* that invocation's messages.create call; content is the only field read;
\* and the response is bound, returned and handed to the caller as it came.
C10_PrintsContent ==
    /\ \A i \in DOMAIN stdout :
         \E j \in RepliesOf(stdout[i].call) :
             /\ replies[j].kind = "response"
             /\ stdout[i].value = replies[j].value[1].content
    /\ fieldsRead \subseteq {"content"}
    /\ pc \in {"return", "exit", "done"} /\ raised = None
         => fieldsRead = {"content"}
    /\ response # << >> =>
         \E j \in RepliesOf(calls) : replies[j].value = response
    /\ ret # << >> => ret = response
    /\ result # << >> => result = response

C10_Witness ==
    /\ pc = "done" /\ Len(stdout) = 1
    /\ Len(stdout[1].value) = 2
    /\ result[1].stop_reason = "max_tokens"

====
